---- MODULE Spec2Model ----
(***************************************************************************)
(* A model of acme's actor/learner coordination core:                      *)
(*                                                                         *)
(*  - EnvironmentLoop (src/acme/environment_loop.py): run and run_episode, *)
(*    one action per statement group, the environment and the actor being  *)
(*    nondeterministic collaborators;                                      *)
(*  - the replay table that ValueDiceBuilder.make_replay_tables builds     *)
(*    (src/acme/agents/jax/value_dice/builder.py): the wiring of the       *)
(*    configuration into the rate limiter and the table is taken from the  *)
(*    builder, the behaviour of the table and of its rate limiter (the     *)
(*    reverb library, not part of the sources) from sections 4.2 and 4.3   *)
(*    of the specification.                                                *)
(*                                                                         *)
(* Three specifications share the variables: Spec (one call of run),       *)
(* SpecEpisode (direct calls of run_episode, richer rewards) and           *)
(* SpecTable / SpecTableFair (the table with inserters and a sampler).     *)
(***************************************************************************)
EXTENDS Integers, Sequences, FiniteSets, TLC

\* ------------------------------------------------------------------ bounds

\* run(num_episodes = n) is called with n in 0..MaxNumEpisodes; the same number
\* caps the episodes one call of run may start (an episode may have length 0,
\* so run(num_steps = k) could otherwise start episodes without end).
MaxNumEpisodes == 2

\* run(num_steps = k) is called with k in 0..MaxNumSteps.
MaxNumSteps == 3

\* The environment ends every episode after at most MaxEpLen steps.
MaxEpLen == 3

\* Direct calls of run_episode made under SpecEpisode.
MaxDirectEpisodes == 2

\* ------------------------------------------------------------ Optional[int]

\* Python's None, and an int argument n as the one-element tuple <<n>>.
None == << >>

Some(n) == << n >>

IsNone(x) == x = None

\* ------------------------------------------------------------- environment

\* Rewards are structured (tree.map_structure walks them leaf by leaf): a
\* reward is the tuple of its leaves.  Every reward of one environment has the
\* shape of its reward_spec, here two leaves.
RunRewards == { <<1, 0>> }

EpisodeRewards == { <<1, 0>>, <<2, -1>>, <<3, 1>>, <<-1, 2>> }

\* The leaves of environment.reward_spec(): one entry per leaf.
RewardSpec == <<"leaf", "leaf">>

\* The actions the actor's policy may select.
Actions == {"a"}

\* self._observers: the observers the loop was constructed with.
Observers == << "observer" >>

VARIABLES
    \* ---- EnvironmentLoop
    pc,              \* the statement the loop is at
    should_update,   \* self._should_update
    num_episodes,    \* run's argument (None or <<n>>)
    num_steps,       \* run's argument (None or <<k>>)
    episode_count,   \* run's local
    step_count,      \* run's local
    episode_steps,   \* run_episode's local
    episode_return,  \* run_episode's local
    timestep,        \* run_episode's local: [last, reward]
    action,          \* run_episode's local
    result,          \* the record run_episode returned last
    counter,         \* self._counter: [episodes, steps]
    logger,          \* the records self._logger.write received, in order
    retval,          \* what run returned (None before it returns)
    caller,          \* who called run_episode: "run" or "direct"
    env_resets,      \* calls of environment.reset so far
    env_steps,       \* calls of environment.step so far
    actor_calls,     \* calls of the actor's methods so far
    step_rewards,    \* the rewards environment.step returned this episode
    directs,         \* direct calls of run_episode made so far
    runs,            \* calls of run made so far
    calls,           \* this episode's calls of reset, observe_first,
                     \* select_action, step, observe and update, in order
    completed,       \* the lengths of the episodes counted so far, in order
    handler,         \* whether run's termination handler is installed
    stop_requested,  \* whether a stop signal reached the handler
    observer_metrics, \* what the observer's get_metrics returns
    \* ---- replay table
    config,          \* ValueDiceConfig: the fields make_replay_tables reads
    table,           \* the items present, oldest first (an item is its id)
    inserted,        \* total items inserted
    sampled,         \* total items sampled
    evicted,         \* total items evicted
    sampler,         \* the learner's Sample call: "idle", "blocked"
    last_sample,     \* what the last admitted Sample call returned: [item, size]
    last_insert,     \* what the last Insert call did: [item, evicted, size_before]
    driver_inserts,  \* inserts made by each driver
    sampled_items,   \* the items Sample calls have returned so far
    deadline,        \* whether the Sample call was given a deadline
    sample_error     \* the error the last Sample call ended with, or "none"

loopVars == << pc, should_update, num_episodes, num_steps, episode_count,
               step_count, episode_steps, episode_return, timestep, action,
               result, counter, logger, retval, caller, env_resets, env_steps,
               actor_calls, step_rewards, directs, runs, calls, completed,
               handler, stop_requested, observer_metrics >>

tableVars == << config, table, inserted, sampled, evicted, sampler,
                last_sample, last_insert, driver_inserts, sampled_items,
                deadline, sample_error >>

vars == << loopVars, tableVars >>


\* ============================================================ EnvironmentLoop

\* _generate_zeros_from_spec mapped over the reward spec: np.zeros per leaf.
generate_zeros_from_spec(spec) == [i \in 1..Len(spec) |-> 0]


\* tree.map_structure(operator.iadd, episode_return, timestep.reward)
add_reward(ret, reward) == [i \in 1..Len(ret) |-> ret[i] + reward[i]]


\* both_given with the `not` lost: raises unless both are given.
both_given_inverted(ne, ns) == IsNone(ne) \/ IsNone(ns)

\* run's check of its arguments: not (num_episodes is None or num_steps is None)
both_given(ne, ns) == ~(IsNone(ne) \/ IsNone(ns))


\* should_terminate taking a missing num_episodes for a limit of zero.
should_terminate_none_is_zero(ne, ns, ec, sc) ==
    \/ (IsNone(ne) \/ ec >= ne[1])
    \/ (~IsNone(ns) /\ sc >= ns[1])

\* should_terminate with a strict comparison of the step count.
should_terminate_strict_steps(ne, ns, ec, sc) ==
    \/ (~IsNone(ne) /\ ec >= ne[1])
    \/ (~IsNone(ns) /\ sc > ns[1])

\* should_terminate with `and` between the two limits.
should_terminate_and(ne, ns, ec, sc) ==
    /\ (~IsNone(ne) /\ ec >= ne[1])
    /\ (~IsNone(ns) /\ sc >= ns[1])

\* should_terminate with a strict comparison of the episode count.
should_terminate_strict(ne, ns, ec, sc) ==
    \/ (~IsNone(ne) /\ ec > ne[1])
    \/ (~IsNone(ns) /\ sc >= ns[1])

\* run's nested should_terminate(episode_count, step_count)
should_terminate(ne, ns, ec, sc) ==
    \/ (~IsNone(ne) /\ ec >= ne[1])
    \/ (~IsNone(ns) /\ sc >= ns[1])

\* counter.increment(episodes=1, steps=episode_steps): adds to the totals and
\* returns them.
counter_increment(c, eps, stp) ==
    [episodes |-> c.episodes + eps, steps |-> c.steps + stp]

\* The record run_episode builds and merges the counts into (the wall-clock
\* fields, which no count depends on, are left out).
episode_result(steps, ret, counts) ==
    [episode_length |-> steps, episode_return |-> ret,
     episodes |-> counts.episodes, steps |-> counts.steps]

\* What an observer's get_metrics may return: a metric of its own, or
\* metrics under keys the record already has.
ObserverMetrics ==
    { [action_max |-> 1],
      [episode_length |-> 7],
      [episode_length |-> 0],
      [episodes |-> 50, steps |-> 100],
      [episode_return |-> << 9, 9 >>] }

\* dict.update: the keys of `metrics` are added to `record`, replacing the
\* values of the keys it already has.
dict_update(record, metrics) ==
    [k \in DOMAIN record \cup DOMAIN metrics |->
        IF k \in DOMAIN metrics THEN metrics[k] ELSE record[k]]

RECURSIVE update_from_observers(_, _, _)
\* for observer in self._observers: result.update(observer.get_metrics())
update_from_observers(record, observers, metrics) ==
    IF observers = << >> THEN record
    ELSE update_from_observers(dict_update(record, metrics),
                               Tail(observers), metrics)

\* time.time() - episode_start_time, the divisor of steps_per_second: zero
\* when the two reads of the clock are equal, positive otherwise.
Elapsed == {0, 1}

NoTimestep == [last |-> FALSE, reward |-> None]

NoResult == [episode_length |-> 0, episode_return |-> << >>,
             episodes |-> 0, steps |-> 0]

\* The state after EnvironmentLoop.__init__ with a fresh Counter.
LoopInit ==
    /\ pc = "idle"
    /\ num_episodes = None
    /\ num_steps = None
    /\ episode_count = 0
    /\ step_count = 0
    /\ episode_steps = 0
    /\ episode_return = << >>
    /\ timestep = NoTimestep
    /\ action = "none"
    /\ result = NoResult
    /\ counter = [episodes |-> 0, steps |-> 0]
    /\ logger = << >>
    /\ retval = None
    /\ caller = "none"
    /\ env_resets = 0
    /\ env_steps = 0
    /\ actor_calls = 0
    /\ step_rewards = << >>
    /\ directs = 0
    /\ runs = 0
    /\ calls = << >>
    /\ completed = << >>
    /\ handler = FALSE
    /\ stop_requested = FALSE

\* The arguments a caller may give run.
RunArgs ==
    {None} \cup {Some(n) : n \in 0..MaxNumEpisodes}

StepArgs ==
    {None} \cup {Some(k) : k \in 0..MaxNumSteps}

\* loop.run(num_episodes = ne, num_steps = ns) is called.
RunCall(ne, ns) ==
    /\ pc = "idle"
    /\ pc' = "check_args"
    /\ num_episodes' = ne
    /\ num_steps' = ns
    /\ retval' = None
    /\ UNCHANGED << should_update, episode_count, step_count, episode_steps,
                    episode_return, timestep, action, result, counter, logger,
                    caller, env_resets, env_steps, actor_calls, step_rewards,
                    directs >>
    /\ runs' = runs + 1
    /\ UNCHANGED << calls, completed, handler, stop_requested >>
    /\ UNCHANGED observer_metrics
    /\ UNCHANGED tableVars

\* run, its first statement: the ValueError, else the locals are set and the
\* loop is entered.
CheckArgs ==
    /\ pc = "check_args"
    /\ IF both_given(num_episodes, num_steps)
       THEN /\ pc' = "raised"
            /\ UNCHANGED << episode_count, step_count >>
       ELSE /\ pc' = "loop"
            /\ episode_count' = 0
            /\ step_count' = 0
    /\ UNCHANGED << should_update, num_episodes, num_steps, episode_steps,
                    episode_return, timestep, action, result, counter, logger,
                    retval, caller, env_resets, env_steps, actor_calls,
                    step_rewards, directs >>
    /\ handler' = ~both_given(num_episodes, num_steps)
    /\ UNCHANGED << runs, calls, completed, stop_requested >>
    /\ UNCHANGED observer_metrics
    /\ UNCHANGED tableVars

\* run: while not should_terminate(episode_count, step_count), and the return
\* after the loop.
LoopTest ==
    /\ pc = "loop"
    /\ IF should_terminate(num_episodes, num_steps, episode_count, step_count)
       THEN /\ pc' = "returned"
            /\ retval' = Some(step_count)
            /\ UNCHANGED caller
       ELSE /\ episode_count < MaxNumEpisodes
            /\ pc' = "episode"
            /\ caller' = "run"
            /\ UNCHANGED retval
    /\ UNCHANGED << should_update, num_episodes, num_steps, episode_count,
                    step_count, episode_steps, episode_return, timestep,
                    action, result, counter, logger, env_resets, env_steps,
                    actor_calls, step_rewards, directs >>
    /\ handler' = (pc' /= "returned")
    /\ UNCHANGED << runs, calls, completed, stop_requested >>
    /\ UNCHANGED observer_metrics
    /\ UNCHANGED tableVars

\* loop.run_episode() is called directly.
RunEpisodeCall ==
    /\ pc = "idle"
    /\ directs < MaxDirectEpisodes
    /\ directs' = directs + 1
    /\ pc' = "episode"
    /\ caller' = "direct"
    /\ UNCHANGED << should_update, num_episodes, num_steps, episode_count,
                    step_count, episode_steps, episode_return, timestep,
                    action, result, counter, logger, retval, env_resets,
                    env_steps, actor_calls, step_rewards >>
    /\ UNCHANGED << runs, calls, completed, handler, stop_requested >>
    /\ UNCHANGED observer_metrics
    /\ UNCHANGED tableVars

\* run_episode: the locals are reset, episode_return starts from zeros.
EpisodeStart ==
    /\ pc = "episode"
    /\ episode_steps' = 0
    /\ episode_return' = generate_zeros_from_spec(RewardSpec)
    /\ step_rewards' = << >>
    /\ pc' = "reset"
    /\ UNCHANGED << should_update, num_episodes, num_steps, episode_count,
                    step_count, timestep, action, result, counter, logger,
                    retval, caller, env_resets, env_steps, actor_calls,
                    directs >>
    /\ calls' = << >>
    /\ UNCHANGED << runs, completed, handler, stop_requested >>
    /\ UNCHANGED observer_metrics
    /\ UNCHANGED tableVars

\* timestep = self._environment.reset(): the first timestep has no reward; an
\* environment may return a timestep that is already the last one.
EnvReset ==
    /\ pc = "reset"
    /\ \E l \in BOOLEAN : timestep' = [last |-> l, reward |-> None]
    /\ env_resets' = env_resets + 1
    /\ pc' = "observe_first"
    /\ UNCHANGED << should_update, num_episodes, num_steps, episode_count,
                    step_count, episode_steps, episode_return, action, result,
                    counter, logger, retval, caller, env_steps, actor_calls,
                    step_rewards, directs >>
    /\ calls' = Append(calls, "environment.reset")
    /\ UNCHANGED << runs, completed, handler, stop_requested >>
    /\ UNCHANGED observer_metrics
    /\ UNCHANGED tableVars

\* self._actor.observe_first(timestep), then each observer's observe_first.
ObserveFirst ==
    /\ pc = "observe_first"
    /\ actor_calls' = actor_calls + 1
    /\ pc' = "while"
    /\ UNCHANGED << should_update, num_episodes, num_steps, episode_count,
                    step_count, episode_steps, episode_return, timestep,
                    action, result, counter, logger, retval, caller,
                    env_resets, env_steps, step_rewards, directs >>
    /\ calls' = calls \o << "actor.observe_first" >>
                      \o [i \in 1..Len(Observers) |-> "observer.observe_first"]
    /\ UNCHANGED << runs, completed, handler, stop_requested >>
    /\ UNCHANGED observer_metrics
    /\ UNCHANGED tableVars

\* while not timestep.last(): episode_steps += 1
EpisodeTest ==
    /\ pc = "while"
    /\ IF timestep.last
       THEN /\ pc' = "increment"
            /\ UNCHANGED episode_steps
       ELSE /\ pc' = "select_action"
            /\ episode_steps' = episode_steps + 1
    /\ UNCHANGED << should_update, num_episodes, num_steps, episode_count,
                    step_count, episode_return, timestep, action, result,
                    counter, logger, retval, caller, env_resets, env_steps,
                    actor_calls, step_rewards, directs >>
    /\ UNCHANGED << runs, calls, completed, handler, stop_requested >>
    /\ UNCHANGED observer_metrics
    /\ UNCHANGED tableVars

\* action = self._actor.select_action(timestep.observation)
SelectAction ==
    /\ pc = "select_action"
    /\ \E a \in Actions : action' = a
    /\ actor_calls' = actor_calls + 1
    /\ pc' = "step"
    /\ UNCHANGED << should_update, num_episodes, num_steps, episode_count,
                    step_count, episode_steps, episode_return, timestep,
                    result, counter, logger, retval, caller, env_resets,
                    env_steps, step_rewards, directs >>
    /\ calls' = Append(calls, "actor.select_action")
    /\ UNCHANGED << runs, completed, handler, stop_requested >>
    /\ UNCHANGED observer_metrics
    /\ UNCHANGED tableVars

\* timestep = self._environment.step(action): the environment draws the reward
\* from `rewards` and decides whether the timestep is the last.
EnvStep(rewards) ==
    /\ pc = "step"
    /\ \E r \in rewards :
         \E l \in (IF episode_steps >= MaxEpLen THEN {TRUE} ELSE BOOLEAN) :
            /\ timestep' = [last |-> l, reward |-> r]
            /\ step_rewards' = Append(step_rewards, r)
    /\ env_steps' = env_steps + 1
    /\ pc' = "observe"
    /\ UNCHANGED << should_update, num_episodes, num_steps, episode_count,
                    step_count, episode_steps, episode_return, action, result,
                    counter, logger, retval, caller, env_resets, actor_calls,
                    directs >>
    /\ calls' = Append(calls, "environment.step")
    /\ UNCHANGED << runs, completed, handler, stop_requested >>
    /\ UNCHANGED observer_metrics
    /\ UNCHANGED tableVars

\* The loop body calling self._actor.update() whatever should_update is.
ObserveAndUpdate_always ==
    /\ pc = "observe"
    /\ actor_calls' = actor_calls + 2
    /\ pc' = "add_reward"
    /\ UNCHANGED << should_update, num_episodes, num_steps, episode_count,
                    step_count, episode_steps, episode_return, timestep,
                    action, result, counter, logger, retval, caller,
                    env_resets, env_steps, step_rewards, directs >>
    /\ calls' = calls \o << "actor.observe" >>
                      \o [i \in 1..Len(Observers) |-> "observer.observe"]
                      \o << "actor.update" >>
    /\ UNCHANGED << runs, completed, handler, stop_requested >>
    /\ UNCHANGED observer_metrics
    /\ UNCHANGED tableVars

\* self._actor.observe(action, next_timestep=timestep), each observer's
\* observe, and self._actor.update() if self._should_update.
ObserveAndUpdate ==
    /\ pc = "observe"
    /\ actor_calls' = actor_calls + (IF should_update THEN 2 ELSE 1)
    /\ pc' = "add_reward"
    /\ UNCHANGED << should_update, num_episodes, num_steps, episode_count,
                    step_count, episode_steps, episode_return, timestep,
                    action, result, counter, logger, retval, caller,
                    env_resets, env_steps, step_rewards, directs >>
    /\ calls' = calls \o << "actor.observe" >>
                      \o [i \in 1..Len(Observers) |-> "observer.observe"]
                      \o (IF should_update THEN << "actor.update" >> ELSE << >>)
    /\ UNCHANGED << runs, completed, handler, stop_requested >>
    /\ UNCHANGED observer_metrics
    /\ UNCHANGED tableVars

\* episode_return = tree.map_structure(operator.iadd, episode_return,
\*                                     timestep.reward)
AddReward ==
    /\ pc = "add_reward"
    /\ episode_return' = add_reward(episode_return, timestep.reward)
    /\ pc' = "while"
    /\ UNCHANGED << should_update, num_episodes, num_steps, episode_count,
                    step_count, episode_steps, timestep, action, result,
                    counter, logger, retval, caller, env_resets, env_steps,
                    actor_calls, step_rewards, directs >>
    /\ UNCHANGED << runs, calls, completed, handler, stop_requested >>
    /\ UNCHANGED observer_metrics
    /\ UNCHANGED tableVars

\* counts = self._counter.increment(episodes=1, steps=episode_steps); then
\* steps_per_second = episode_steps / (time.time() - episode_start_time), which
\* raises ZeroDivisionError when no time has elapsed; else the result record is
\* built, the counts and then each observer's metrics are merged into it, and
\* it is returned.
Increment ==
    /\ pc = "increment"
    /\ counter' = counter_increment(counter, 1, episode_steps)
    /\ \E elapsed \in Elapsed :
         IF elapsed = 0
         THEN /\ pc' = "zero_division"
              /\ handler' = FALSE
              /\ UNCHANGED result
         ELSE /\ pc' = "episode_done"
              /\ result' = update_from_observers(
                              episode_result(episode_steps, episode_return,
                                             counter'),
                              Observers, observer_metrics)
              /\ UNCHANGED handler
    /\ UNCHANGED << should_update, num_episodes, num_steps, episode_count,
                    step_count, episode_steps, episode_return, timestep,
                    action, logger, retval, caller, env_resets, env_steps,
                    actor_calls, step_rewards, directs >>
    /\ completed' = Append(completed, episode_steps)
    /\ UNCHANGED << runs, calls, stop_requested >>
    /\ UNCHANGED observer_metrics
    /\ UNCHANGED tableVars

\* run, after run_episode returned: episode_count += 1,
\* step_count += int(result["episode_length"]), self._logger.write(result).
LogWrite ==
    /\ pc = "episode_done"
    /\ caller = "run"
    /\ episode_count' = episode_count + 1
    /\ step_count' = step_count + result.episode_length
    /\ logger' = Append(logger, result)
    /\ pc' = "loop"
    /\ UNCHANGED << should_update, num_episodes, num_steps, episode_steps,
                    episode_return, timestep, action, result, counter, retval,
                    caller, env_resets, env_steps, actor_calls, step_rewards,
                    directs >>
    /\ UNCHANGED << runs, calls, completed, handler, stop_requested >>
    /\ UNCHANGED observer_metrics
    /\ UNCHANGED tableVars

\* A direct call of run_episode returns its record to the caller.
DirectReturn ==
    /\ pc = "episode_done"
    /\ caller = "direct"
    /\ pc' = "idle"
    /\ UNCHANGED << should_update, num_episodes, num_steps, episode_count,
                    step_count, episode_steps, episode_return, timestep,
                    action, result, counter, logger, retval, caller,
                    env_resets, env_steps, actor_calls, step_rewards,
                    directs >>
    /\ UNCHANGED << runs, calls, completed, handler, stop_requested >>
    /\ UNCHANGED observer_metrics
    /\ UNCHANGED tableVars

\* self._actor.select_action raises: nothing catches it in run_episode or in
\* run, so the error leaves both and the with-block of run is exited.
SelectActionRaises ==
    /\ pc = "select_action"
    /\ pc' = "failed"
    /\ handler' = FALSE
    /\ calls' = Append(calls, "actor.select_action")
    /\ actor_calls' = actor_calls + 1
    /\ UNCHANGED << should_update, num_episodes, num_steps, episode_count,
                    step_count, episode_steps, episode_return, timestep,
                    action, result, counter, logger, retval, caller,
                    env_resets, env_steps, step_rewards, directs >>
    /\ UNCHANGED << runs, completed, stop_requested >>
    /\ UNCHANGED observer_metrics
    /\ UNCHANGED tableVars

\* The error of self._environment.step is caught and the partial episode is
\* counted and logged as if it had ended.
EnvStepRaises_counted ==
    /\ pc = "step"
    /\ pc' = "failed"
    /\ handler' = FALSE
    /\ calls' = Append(calls, "environment.step")
    /\ env_steps' = env_steps + 1
    /\ counter' = counter_increment(counter, 1, episode_steps)
    /\ logger' = Append(logger, update_from_observers(
                                    episode_result(episode_steps,
                                                   episode_return, counter'),
                                    Observers, observer_metrics))
    /\ UNCHANGED << should_update, num_episodes, num_steps, episode_count,
                    step_count, episode_steps, episode_return, timestep,
                    action, result, retval, caller, env_resets,
                    actor_calls, step_rewards, directs >>
    /\ UNCHANGED << runs, completed, stop_requested >>
    /\ UNCHANGED observer_metrics
    /\ UNCHANGED tableVars

\* self._environment.step raises: the error leaves run_episode and run.
EnvStepRaises ==
    /\ pc = "step"
    /\ pc' = "failed"
    /\ handler' = FALSE
    /\ calls' = Append(calls, "environment.step")
    /\ env_steps' = env_steps + 1
    /\ UNCHANGED << should_update, num_episodes, num_steps, episode_count,
                    step_count, episode_steps, episode_return, timestep,
                    action, result, counter, logger, retval, caller,
                    env_resets, actor_calls, step_rewards, directs >>
    /\ UNCHANGED << runs, completed, stop_requested >>
    /\ UNCHANGED observer_metrics
    /\ UNCHANGED tableVars

\* An external stop signal reaches the handler run installed while an episode
\* is in flight; the handler records the request.
StopSignal ==
    /\ handler
    /\ pc \notin {"loop", "returned"}
    /\ ~stop_requested
    /\ stop_requested' = TRUE
    /\ UNCHANGED << pc, should_update, num_episodes, num_steps, episode_count,
                    step_count, episode_steps, episode_return, timestep,
                    action, result, counter, logger, retval, caller,
                    env_resets, env_steps, actor_calls, step_rewards,
                    directs >>
    /\ UNCHANGED << runs, calls, completed, handler >>
    /\ UNCHANGED observer_metrics
    /\ UNCHANGED tableVars

\* run has returned (return step_count) and the caller may call again.
RunReturn ==
    /\ pc = "returned"
    /\ pc' = "idle"
    /\ UNCHANGED << should_update, num_episodes, num_steps, episode_count,
                    step_count, episode_steps, episode_return, timestep,
                    action, result, counter, logger, retval, caller,
                    env_resets, env_steps, actor_calls, step_rewards,
                    directs >>
    /\ UNCHANGED << runs, calls, completed, handler, stop_requested >>
    /\ UNCHANGED observer_metrics
    /\ UNCHANGED tableVars

\* Another loop built on the same counter completes an episode of n steps:
\* its run_episode increments the counter by episodes=1, steps=n.
OtherLoopIncrement(n) ==
    /\ counter' = counter_increment(counter, 1, n)
    /\ completed' = Append(completed, n)
    /\ UNCHANGED << pc, should_update, num_episodes, num_steps, episode_count,
                    step_count, episode_steps, episode_return, timestep,
                    action, result, logger, retval, caller, env_resets,
                    env_steps, actor_calls, step_rewards, directs >>
    /\ UNCHANGED << runs, calls, handler, stop_requested >>
    /\ UNCHANGED observer_metrics
    /\ UNCHANGED tableVars


\* =============================================================== replay table

\* Inserts and Sample calls made under SpecTable.
MaxInserts == 5

MaxSamples == 5

\* The drivers (actors) that insert into the one table.
Drivers == {"d1", "d2"}

\* The ValueDiceConfig fields make_replay_tables reads.  The tolerance rate is
\* a float: it is given as tolerance_num / 2^tolerance_bits, a value a double
\* holds exactly, so that the float products of make_replay_tables are the
\* exact products (for a rate such as 0.1 they are the nearest doubles).
Configs ==
    [min_replay_size : {1, 2},
     max_replay_size : {1, 3},
     samples_per_insert : {1, 2},
     tolerance_num : {1, 2},
     tolerance_bits : {0, 3}]

\* A fraction n/d is the pair <<n, d>>, d > 0.
Frac(n, d) == << n, d >>

\* samples_per_insert_tolerance =
\*     samples_per_insert_tolerance_rate * samples_per_insert
samples_per_insert_tolerance(cfg) ==
    Frac(cfg.tolerance_num * cfg.samples_per_insert, 2 ^ cfg.tolerance_bits)


\* error_buffer computed from max_replay_size.
error_buffer_max_size(cfg) ==
    Frac(cfg.max_replay_size * cfg.tolerance_num * cfg.samples_per_insert,
         2 ^ cfg.tolerance_bits)

\* error_buffer = min_replay_size * samples_per_insert_tolerance
error_buffer(cfg) ==
    Frac(cfg.min_replay_size * samples_per_insert_tolerance(cfg)[1],
         samples_per_insert_tolerance(cfg)[2])


\* limiter with min_size_to_sample fixed at 1.
limiter_min_one(cfg) ==
    [min_size_to_sample |-> 1,
     samples_per_insert |-> cfg.samples_per_insert,
     error_buffer |-> Frac(cfg.min_replay_size * cfg.tolerance_num
                             * cfg.samples_per_insert, 2 ^ cfg.tolerance_bits)]

\* limiter with min_size_to_sample and samples_per_insert exchanged.
limiter_swapped(cfg) ==
    [min_size_to_sample |-> cfg.samples_per_insert,
     samples_per_insert |-> cfg.min_replay_size,
     error_buffer |-> Frac(cfg.min_replay_size * cfg.tolerance_num
                             * cfg.samples_per_insert, 2 ^ cfg.tolerance_bits)]

\* limiter that never lets the table reach min_size_to_sample items.
limiter_min_above_max(cfg) ==
    [min_size_to_sample |-> cfg.max_replay_size + 1,
     samples_per_insert |-> cfg.samples_per_insert,
     error_buffer |-> Frac(cfg.min_replay_size * cfg.tolerance_num
                             * cfg.samples_per_insert, 2 ^ cfg.tolerance_bits)]

\* limiter = rate_limiters.SampleToInsertRatio(min_size_to_sample=...,
\*     samples_per_insert=..., error_buffer=...)
limiter(cfg) ==
    [min_size_to_sample |-> cfg.min_replay_size,
     samples_per_insert |-> cfg.samples_per_insert,
     error_buffer |-> error_buffer(cfg)]


\* make_replay_tables with a Lifo remover.
make_replay_tables_lifo(cfg) ==
    [sampler |-> "Uniform",
     remover |-> "Lifo",
     max_size |-> cfg.max_replay_size,
     rate_limiter |-> [min_size_to_sample |-> cfg.min_replay_size,
                       samples_per_insert |-> cfg.samples_per_insert,
                       error_buffer |-> Frac(cfg.min_replay_size
                           * cfg.tolerance_num * cfg.samples_per_insert,
                           2 ^ cfg.tolerance_bits)]]

\* make_replay_tables with max_size taken from min_replay_size.
make_replay_tables_min_size(cfg) ==
    [sampler |-> "Uniform",
     remover |-> "Fifo",
     max_size |-> cfg.min_replay_size,
     rate_limiter |-> [min_size_to_sample |-> cfg.min_replay_size,
                       samples_per_insert |-> cfg.samples_per_insert,
                       error_buffer |-> Frac(cfg.min_replay_size
                           * cfg.tolerance_num * cfg.samples_per_insert,
                           2 ^ cfg.tolerance_bits)]]

\* reverb.Table(sampler=Uniform(), remover=Fifo(), max_size=...,
\*     rate_limiter=limiter)
make_replay_tables(cfg) ==
    [sampler |-> "Uniform",
     remover |-> "Fifo",
     max_size |-> cfg.max_replay_size,
     rate_limiter |-> limiter(cfg)]

\* The table the builder made from the configuration.
Table == make_replay_tables(config)

\* ---- the table and its rate limiter, from sections 4.2 and 4.3

\* A sample call is admitted only if size >= minSizeToSample and
\* sampled < samplesPerInsert * inserted + errorBuffer / 2.
CanSample(lim, size, ins, smp) ==
    /\ size >= lim.min_size_to_sample
    /\ 2 * lim.error_buffer[2] * smp
         < 2 * lim.error_buffer[2] * lim.samples_per_insert * ins
           + lim.error_buffer[1]

\* An insert call is blocked only if the table is at capacity and eviction is
\* disabled; otherwise it proceeds, whatever the ratio.
CanInsert(tbl, size) ==
    tbl.remover /= "None" \/ size < tbl.max_size

\* The item the eviction policy removes: Fifo the oldest, Lifo the newest.
EvictIndex(remover, items) ==
    IF remover = "Fifo" THEN 1 ELSE Len(items)

RemoveAt(items, i) ==
    SubSeq(items, 1, i - 1) \o SubSeq(items, i + 1, Len(items))

\* The items the selection policy may return: Uniform any item present.
Selectable(selector, items) ==
    {items[i] : i \in 1..Len(items)}

NoSample == [item |-> 0, size |-> 0, inserted |-> 0, sampled |-> 0,
             waited |-> FALSE]

NoInsert == [item |-> 0, evicted |-> << >>, size_before |-> 0]

\* The state after make_replay_tables(cfg): an empty table, counters at zero.
TableInit(cfg) ==
    /\ config = cfg
    /\ table = << >>
    /\ inserted = 0
    /\ sampled = 0
    /\ evicted = 0
    /\ sampler = "idle"
    /\ last_sample = NoSample
    /\ last_insert = NoInsert
    /\ driver_inserts = [d \in Drivers |-> 0]
    /\ sampled_items = {}
    /\ deadline = FALSE
    /\ sample_error = "none"

\* Insert(item) by driver d: evicts one item by policy if the table is at
\* capacity, adds the item, increments total-inserted.  One indivisible step.
Insert(d) ==
    /\ inserted < MaxInserts
    /\ CanInsert(Table, Len(table))
    /\ LET full == Len(table) >= Table.max_size
           i == EvictIndex(Table.remover, table)
           kept == IF full THEN RemoveAt(table, i) ELSE table
           item == inserted + 1
       IN /\ table' = Append(kept, item)
          /\ evicted' = evicted + (IF full THEN 1 ELSE 0)
          /\ last_insert' = [item |-> item,
                             evicted |-> IF full THEN << table[i] >> ELSE << >>,
                             size_before |-> Len(table)]
    /\ inserted' = inserted + 1
    /\ driver_inserts' = [driver_inserts EXCEPT ![d] = @ + 1]
    /\ UNCHANGED << config, sampled, sampler, last_sample >>
    /\ UNCHANGED << sampled_items, deadline, sample_error >>
    /\ UNCHANGED loopVars

\* What an admitted Sample call does: returns one item chosen by the selection
\* policy, without removing it, and increments total-sampled.
Admit(waited) ==
    /\ CanSample(Table.rate_limiter, Len(table), inserted, sampled)
    /\ \E it \in Selectable(Table.sampler, table) :
         /\ last_sample' = [item |-> it, size |-> Len(table),
                            inserted |-> inserted, sampled |-> sampled,
                            waited |-> waited]
         /\ sampled_items' = sampled_items \cup {it}
    /\ sampled' = sampled + 1
    /\ sampler' = "idle"

\* Sample() is called: admitted at once, or the caller blocks.
SampleCall ==
    /\ sampler = "idle"
    /\ sampled < MaxSamples
    /\ \/ Admit(FALSE)
       \/ /\ ~CanSample(Table.rate_limiter, Len(table), inserted, sampled)
          /\ sampler' = "blocked"
          /\ UNCHANGED << sampled, last_sample, sampled_items >>
    /\ UNCHANGED << config, table, inserted, evicted, last_insert,
                    driver_inserts >>
    /\ deadline' = FALSE
    /\ sample_error' = "none"
    /\ UNCHANGED loopVars

\* A blocked Sample call is admitted once the condition holds.
SampleWake ==
    /\ sampler = "blocked"
    /\ Admit(TRUE)
    /\ UNCHANGED << config, table, inserted, evicted, last_insert,
                    driver_inserts >>
    /\ sample_error' = "none"
    /\ UNCHANGED << deadline >>
    /\ UNCHANGED loopVars

\* Sample() is called with a deadline: admitted at once, or the caller blocks
\* until it is admitted or the deadline expires.
SampleCallDeadline ==
    /\ sampler = "idle"
    /\ sampled < MaxSamples
    /\ \/ Admit(FALSE)
       \/ /\ ~CanSample(Table.rate_limiter, Len(table), inserted, sampled)
          /\ sampler' = "blocked"
          /\ UNCHANGED << sampled, last_sample, sampled_items >>
    /\ deadline' = TRUE
    /\ sample_error' = "none"
    /\ UNCHANGED << config, table, inserted, evicted, last_insert,
                    driver_inserts >>
    /\ UNCHANGED loopVars

\* The deadline of a blocked Sample call expires: the call fails with a
\* Timeout error and changes nothing in the table.
SampleTimeout ==
    /\ sampler = "blocked"
    /\ deadline
    /\ sampler' = "idle"
    /\ sample_error' = "Timeout"
    /\ UNCHANGED << config, table, inserted, sampled, evicted, last_sample,
                    last_insert, driver_inserts, sampled_items, deadline >>
    /\ UNCHANGED loopVars


\* ============================================================= specifications

DefaultConfig ==
    [min_replay_size |-> 1, max_replay_size |-> 1, samples_per_insert |-> 1,
     tolerance_num |-> 1, tolerance_bits |-> 0]

\* One call of run on a loop just constructed.
Init ==
    /\ LoopInit
    /\ should_update \in BOOLEAN
    /\ observer_metrics \in ObserverMetrics
    /\ TableInit(DefaultConfig)

Next ==
    \/ \E ne \in RunArgs : \E ns \in StepArgs : RunCall(ne, ns)
    \/ CheckArgs
    \/ LoopTest
    \/ EpisodeStart
    \/ EnvReset
    \/ ObserveFirst
    \/ EpisodeTest
    \/ SelectAction
    \/ EnvStep(RunRewards)
    \/ ObserveAndUpdate
    \/ AddReward
    \/ Increment
    \/ LogWrite

Spec == Init /\ [][Next]_vars

\* Direct calls of run_episode, the environment drawing from EpisodeRewards.
NextEpisode ==
    \/ RunEpisodeCall
    \/ EpisodeStart
    \/ EnvReset
    \/ ObserveFirst
    \/ EpisodeTest
    \/ SelectAction
    \/ EnvStep(EpisodeRewards)
    \/ ObserveAndUpdate
    \/ AddReward
    \/ Increment
    \/ DirectReturn

SpecEpisode == Init /\ [][NextEpisode]_vars

\* The table of any configuration, with its inserters and its sampler.
InitTable ==
    /\ LoopInit
    /\ should_update = TRUE
    /\ observer_metrics = [action_max |-> 1]
    /\ \E cfg \in Configs : TableInit(cfg)

NextTable ==
    \/ \E d \in Drivers : Insert(d)
    \/ SampleCall
    \/ SampleWake

SpecTable == InitTable /\ [][NextTable]_vars

\* The drivers keep inserting, and a waiting Sample call is woken when its
\* condition holds.
SpecTableFair ==
    /\ InitTable
    /\ [][NextTable]_vars
    /\ WF_vars(\E d \in Drivers : Insert(d))
    /\ WF_vars(SampleWake)

\* The table with one driver inserting and one sampler.
NextTableWake ==
    \/ Insert("d1")
    \/ SampleCall
    \/ SampleWake

\* A waiting Sample call is woken when its condition holds; the driver inserts
\* and the learner samples only when they choose to.
SpecTableWake ==
    /\ InitTable
    /\ [][NextTableWake]_vars
    /\ WF_vars(SampleWake)

\* The table with Sample calls that may carry a deadline.
NextTimeout ==
    \/ \E d \in Drivers : Insert(d)
    \/ SampleCall
    \/ SampleCallDeadline
    \/ SampleWake
    \/ SampleTimeout

SpecTableTimeout == InitTable /\ [][NextTimeout]_vars

\* One call of run with an actor and an environment that may raise in a step.
NextFail ==
    \/ Next
    \/ SelectActionRaises
    \/ EnvStepRaises

SpecFail == Init /\ [][NextFail]_vars

\* One call of run during which an external stop signal may arrive.
NextStop ==
    \/ Next
    \/ StopSignal

SpecStop == Init /\ [][NextStop]_vars

\* The number of episodes after which no further call is started.
MaxShared == 3

\* The lengths of the episodes of the second loop.
OtherLengths == {0, 2}

\* Several calls of run and of run_episode on one loop, and a second loop that
\* shares its counter.
InitShared ==
    /\ LoopInit
    /\ should_update = FALSE
    /\ observer_metrics \in {[action_max |-> 1],
                             [episodes |-> 50, steps |-> 100]}
    /\ TableInit(DefaultConfig)

NextShared ==
    \/ /\ Len(completed) < MaxShared
       /\ \/ RunCall(Some(1), None)
          \/ RunCall(None, Some(1))
          \/ RunEpisodeCall
          \/ \E n \in OtherLengths : OtherLoopIncrement(n)
    \/ CheckArgs
    \/ LoopTest
    \/ RunReturn
    \/ EpisodeStart
    \/ EnvReset
    \/ ObserveFirst
    \/ EpisodeTest
    \/ SelectAction
    \/ EnvStep(RunRewards)
    \/ ObserveAndUpdate
    \/ AddReward
    \/ Increment
    \/ LogWrite
    \/ DirectReturn

SpecShared == InitShared /\ [][NextShared]_vars

\* One call of run that keeps executing: the loop is a sequential program, so
\* a step that can be taken is eventually taken.
SpecFair == Init /\ [][Next]_vars /\ WF_vars(Next)


\* ===================================================================== claims

RECURSIVE SumLengths(_)
\* The sum of the episode_length values of a sequence of result records.
SumLengths(records) ==
    IF records = << >> THEN 0
    ELSE Head(records).episode_length + SumLengths(Tail(records))

RECURSIVE SumSeq(_)
\* The sum of a sequence of numbers.
SumSeq(s) == IF s = << >> THEN 0 ELSE s[1] + SumSeq(Tail(s))

RECURSIVE SumLeaf(_, _)
\* The sum of leaf i over a sequence of rewards.
SumLeaf(rewards, i) ==
    IF rewards = << >> THEN 0
    ELSE Head(rewards)[i] + SumLeaf(Tail(rewards), i)

\* The element-wise sum of a sequence of rewards, from zero.
SumRewards(rewards) == [i \in 1..Len(RewardSpec) |-> SumLeaf(rewards, i)]

\* run was called with both arguments given, and is past its first statement.
BothGivenCall ==
    /\ num_episodes /= None
    /\ num_steps /= None
    /\ pc \notin {"idle", "check_args"}

\* C1: a call of run with both num_episodes and num_steps given raises the
\* ValueError before any episode runs: the call ends raised, and the
\* environment was never reset or stepped, the actor never called, the counter
\* never incremented and nothing written to the logger.
C1_BothGivenRaisesFirst ==
    BothGivenCall =>
        /\ pc = "raised"
        /\ env_resets = 0
        /\ env_steps = 0
        /\ actor_calls = 0
        /\ counter = [episodes |-> 0, steps |-> 0]
        /\ logger = << >>
        /\ retval = None

C1_Witness ==
    /\ pc = "raised"
    /\ num_episodes = Some(2)
    /\ num_steps = Some(3)

\* C2: run(num_episodes = n) never makes more than n run_episode calls, and
\* when it returns it has made exactly n (none for n = 0) and returns the sum
\* of the episode_length values of the n records.
C2_EpisodesExact ==
    (num_episodes /= None /\ num_steps = None) =>
        /\ env_resets <= num_episodes[1]
        /\ pc = "returned" =>
              /\ env_resets = num_episodes[1]
              /\ Len(logger) = num_episodes[1]
              /\ retval = Some(SumLengths(logger))

C2_Witness ==
    /\ pc = "returned"
    /\ num_episodes = Some(2)
    /\ num_steps = None
    /\ Len(logger) = 2
    /\ logger[1].episode_length = 1
    /\ logger[2].episode_length = 3
    /\ retval = Some(4)

\* C3: when run(num_steps = k) returns, the total returned is at least k and
\* is the sum of the lengths of whole episodes: every episode the call started
\* was run to a last timestep and logged, and the total is the number of
\* environment steps taken.
C3_AtLeastNumSteps ==
    (pc = "returned" /\ num_steps /= None /\ num_episodes = None) =>
        /\ retval[1] >= num_steps[1]
        /\ retval[1] = SumLengths(logger)
        /\ retval[1] = env_steps
        /\ Len(logger) = env_resets
        /\ (env_resets > 0 => timestep.last)

\* The last episode crosses the threshold: 2 steps, then a whole episode of 3.
C3_Witness ==
    /\ pc = "returned"
    /\ num_steps = Some(3)
    /\ num_episodes = None
    /\ Len(logger) = 2
    /\ logger[2].episode_length = 3
    /\ retval = Some(5)

\* C4: the episode_return of the record run_episode returns is the
\* element-wise sum, from zero, of the rewards environment.step returned in
\* the episode (the reset timestep adds nothing).
C4_EpisodeReturnIsSum ==
    pc = "episode_done" => result.episode_return = SumRewards(step_rewards)

\* Rewards 1, 2, 3 on the first leaf over three steps: episode_return 6.
C4_Witness ==
    /\ pc = "episode_done"
    /\ step_rewards = << <<1, 0>>, <<2, -1>>, <<3, 1>> >>
    /\ result.episode_return = <<6, 0>>

Min(a, b) == IF a <= b THEN a ELSE b

Max(a, b) == IF a >= b THEN a ELSE b

\* C5: under Fifo eviction with capacity max_replay_size, after any Insert
\* calls: size <= capacity, size = inserted - evicted = min(capacity,
\* inserted), evicted = max(0, inserted - capacity), and the items present are
\* exactly the most recently inserted ones, oldest first.
C5_FifoSize ==
    /\ Len(table) <= config.max_replay_size
    /\ Len(table) = inserted - evicted
    /\ Len(table) = Min(config.max_replay_size, inserted)
    /\ evicted = Max(0, inserted - config.max_replay_size)
    /\ table = [i \in 1..Len(table) |-> inserted - Len(table) + i]

C5_Witness ==
    /\ config.max_replay_size = 3
    /\ inserted = 5
    /\ evicted = 2
    /\ table = <<3, 4, 5>>

\* C6: a Sample call never returns an item while the size is below
\* min_replay_size.
C6_NoSampleBelowMinSize ==
    last_sample /= NoSample => last_sample.size >= config.min_replay_size

\* A Sample call that waited for the table to fill, admitted at the minimum.
C6_Witness ==
    /\ config.min_replay_size = 2
    /\ last_sample.waited
    /\ last_sample.size = 2
    /\ last_sample.sampled = 0

\* errorBuffer of the configuration, as the fraction
\* min_replay_size * tolerance_rate * samples_per_insert.
EbNum == config.min_replay_size * config.tolerance_num * config.samples_per_insert

EbDen == 2 ^ config.tolerance_bits

\* sampled < samplesPerInsert * inserted + errorBuffer / 2 + extra
BelowUpper(smp, ins, extra) ==
    2 * EbDen * smp
      < 2 * EbDen * config.samples_per_insert * ins + EbNum + 2 * EbDen * extra

\* C7: a Sample call is admitted only where size >= minSizeToSample and
\* sampled < samplesPerInsert * inserted + errorBuffer / 2, on the counters at
\* the moment of admission; so sampled <= samplesPerInsert * inserted +
\* errorBuffer / 2 + 1 in every state.
C7_SampleAdmission ==
    /\ last_sample /= NoSample =>
          /\ last_sample.size >= config.min_replay_size
          /\ BelowUpper(last_sample.sampled, last_sample.inserted, 0)
    /\ 2 * EbDen * sampled
         <= 2 * EbDen * config.samples_per_insert * inserted + EbNum + 2 * EbDen

\* A Sample call blocked by the ratio alone, the table holding enough items.
C7_Witness ==
    /\ sampler = "blocked"
    /\ Len(table) >= config.min_replay_size
    /\ last_sample /= NoSample
    /\ ~BelowUpper(sampled, inserted, 0)

Abs(x) == IF x >= 0 THEN x ELSE -x

\* C8 as stated, at the largest N the model reaches and with samples taken:
\* |M/N - samplesPerInsert| <= errorBuffer/N, that is
\* |M - samplesPerInsert * N| <= errorBuffer, on both sides.
C8_Original ==
    (inserted = MaxInserts /\ sampled >= 2) =>
        EbDen * Abs(sampled - config.samples_per_insert * inserted) <= EbNum

\* C8 amended: only the upper side is kept, and with one more sample:
\* M/N - samplesPerInsert < (errorBuffer/2 + 1)/N after N >= 1 inserts and M
\* admitted samples; inserts being unconditional, M/N has no lower bound.
C8_UpperSideOnly ==
    inserted >= 1 => BelowUpper(sampled, inserted, 1)

\* Samples one short of the upper bound, and inserts running ahead unsampled.
C8_Witness ==
    /\ inserted >= 1
    /\ ~BelowUpper(sampled + 1, inserted, 1)
    /\ sampled >= 2

\* C9: with Fifo eviction an Insert call is never blocked or failed by the
\* ratio: whatever inserted, sampled and the size are, Insert is enabled, adds
\* the item, makes total-inserted one more, and evicts exactly one item if and
\* only if the table was at capacity.
C9_InsertUnconditional ==
    /\ inserted < MaxInserts => ENABLED (\E d \in Drivers : Insert(d))
    /\ last_insert /= NoInsert =>
          /\ last_insert.item = inserted
          /\ table[Len(table)] = inserted
          /\ Len(last_insert.evicted) <= 1
          /\ Len(last_insert.evicted) = 1
               <=> last_insert.size_before = config.max_replay_size
          /\ Len(table) = last_insert.size_before + 1 - Len(last_insert.evicted)

\* Inserts went on with nothing sampled, far below the ratio, evicting at
\* capacity.
C9_Witness ==
    /\ inserted = 5
    /\ sampled = 0
    /\ sampler = "blocked"
    /\ last_insert.evicted = << 2 >>

\* The admission rule on the configuration's own parameters.
AdmissibleByRule ==
    /\ Len(table) >= config.min_replay_size
    /\ BelowUpper(sampled, inserted, 0)

\* C10: with inserters that keep inserting and a table that can hold
\* min_replay_size items, a blocked Sample call is eventually admitted (in the
\* bounded model: unless the inserts have run out with the rule still
\* refusing it).
C10_BlockedSampleAdmitted ==
    (sampler = "blocked" /\ config.max_replay_size >= config.min_replay_size)
        ~> (sampler = "idle" \/ (inserted = MaxInserts /\ ~AdmissibleByRule))

\* A Sample call admitted after it had blocked.
C10_Witness ==
    /\ sampler = "idle"
    /\ last_sample.waited
    /\ last_sample.inserted < MaxInserts


\* The items of a sequence.
Range(items) == {items[i] : i \in 1..Len(items)}

\* Item i was returned by a Sample call or is no longer in the table.
SampledOrEvicted(i) == i \in sampled_items \/ i \notin Range(table)

\* An item leaves the table only by eviction, and only when an Insert found
\* the table at capacity; a Sample call removes nothing.
OnlyEvictionRemoves ==
    /\ \A i \in Range(table) :
          i \notin Range(table') =>
              /\ inserted' = inserted + 1
              /\ Len(table) = config.max_replay_size
              /\ last_insert'.evicted = << i >>
              /\ evicted' = evicted + 1
    /\ sampled' /= sampled => table' = table
    /\ Cardinality(Range(table')) = Len(table')
    /\ Range(table') \subseteq 1..inserted'
    /\ Len(table') = inserted' - evicted'

\* C11 as stated: every item inserted is eventually returned by a Sample call
\* or evicted, and nothing but eviction at capacity removes an item.  Runs in
\* which a caller has used up the calls the model gives it are left out (the
\* right-hand side of the leads-to), so that only a run in which the driver
\* and the sampler stop of themselves can refute it.
C11_Original ==
    /\ \A i \in 1..MaxInserts :
          (i \in Range(table))
             ~> (SampledOrEvicted(i) \/ inserted = MaxInserts
                 \/ sampled = MaxSamples)
    /\ [][OnlyEvictionRemoves]_vars

\* C11 amended: nothing but eviction at capacity removes an item; and if the
\* driver keeps inserting, every item inserted is eventually returned by a
\* Sample call or evicted (in the bounded model: unless the inserts have run
\* out before the max_replay_size further inserts that evict it).
C11_NoLossWhileInserting ==
    /\ [][OnlyEvictionRemoves]_vars
    /\ WF_vars(Insert("d1")) =>
          \A i \in 1..MaxInserts :
             (i \in Range(table))
                ~> (SampledOrEvicted(i)
                    \/ (inserted = MaxInserts
                        /\ i + config.max_replay_size > MaxInserts))

\* With inserts still to come, an eviction at capacity has removed an item no
\* Sample call had returned, while a sampled item and an unsampled one are
\* still present.
C11_Witness ==
    /\ inserted < MaxInserts
    /\ Len(last_insert.evicted) = 1
    /\ last_insert.evicted[1] \notin sampled_items
    /\ \E i \in Range(table) : i \notin sampled_items
    /\ \E i \in Range(table) : i \in sampled_items


RECURSIVE SumInserts(_)
\* The sum of the insert counts of a set of drivers.
SumInserts(ds) ==
    IF ds = {} THEN 0
    ELSE LET d == CHOOSE x \in ds : TRUE
         IN driver_inserts[d] + SumInserts(ds \ {d})

\* C12: with two drivers inserting concurrently into one table of capacity
\* max_replay_size, under every interleaving the size never exceeds the
\* capacity, total-inserted is the sum of the drivers' insert counts (no
\* update is lost), and the counters never decrease: each step that inserts
\* adds one to total-inserted and to one driver's count.
C12_ConcurrentInserts ==
    [][ /\ Len(table') <= config.max_replay_size
        /\ inserted' = SumInserts(Drivers)'
        /\ inserted' >= inserted
        /\ sampled' >= sampled
        /\ inserted' - inserted <= 1
        /\ sampled' - sampled <= 1
      ]_vars

\* Both drivers inserted, interleaved with samples, past the capacity.
C12_Witness ==
    /\ driver_inserts["d1"] = 2
    /\ driver_inserts["d2"] = 3
    /\ inserted = 5
    /\ sampled >= 2
    /\ Len(table) = config.max_replay_size
    /\ config.max_replay_size = 3


\* C13: a Sample call blocked by the admission controller ends in one of two
\* ways only: it is admitted, in a state where the rule holds, or, if it was
\* given a deadline, it fails with a Timeout error that leaves the contents,
\* the size, total-inserted and total-sampled unchanged.  No call fails with
\* Timeout unless it was blocked with a deadline, and Insert, never blocked
\* under Fifo eviction, never fails.
C13_BlockedOutcomes ==
    [][ /\ (sampler = "blocked" /\ sampler' /= "blocked") =>
              \/ /\ AdmissibleByRule
                 /\ sampled' = sampled + 1
                 /\ last_sample'.waited
                 /\ last_sample'.item \in Range(table)
                 /\ sample_error' = "none"
                 /\ table' = table
              \/ /\ deadline
                 /\ sample_error' = "Timeout"
                 /\ table' = table
                 /\ inserted' = inserted
                 /\ sampled' = sampled
                 /\ evicted' = evicted
        /\ (sample_error' = "Timeout" /\ sample_error /= "Timeout") =>
              (sampler = "blocked" /\ deadline)
        /\ (sampler = "blocked" /\ ~deadline) => sample_error' = "none"
      ]_vars

\* A Sample call that timed out, and one with a deadline that was admitted
\* after waiting.
C13_Witness ==
    /\ sample_error = "Timeout"
    /\ sampler = "idle"
    /\ last_sample.waited
    /\ deadline

\* C14: an error raised by the policy or the environment in a step leaves
\* run_episode and run (run returns nothing and stays aborted); the partial
\* episode adds no record to the logger and nothing to the counter, and the
\* records and counts are exactly those of the episodes completed before it.
C14_ErrorAborts ==
    [][ /\ (pc' = "failed" /\ pc /= "failed") =>
             /\ pc \in {"select_action", "step"}
             /\ caller = "run"
             /\ logger' = logger
             /\ counter' = counter
             /\ retval' = None
             /\ ~handler'
             /\ Len(logger) = episode_count
             /\ counter.episodes = episode_count
             /\ counter.steps = SumSeq(completed)
             /\ Len(completed) = Len(logger)
             /\ env_resets = episode_count + 1
        /\ pc = "failed" => pc' = "failed" /\ logger' = logger
                                           /\ counter' = counter
      ]_vars

\* The environment raised in the second step of the second episode.
C14_Witness ==
    /\ pc = "failed"
    /\ calls[Len(calls)] = "environment.step"
    /\ episode_steps = 2
    /\ Len(logger) = 1
    /\ counter = [episodes |-> 1, steps |-> logger[1].episode_length]
    /\ logger[1].episode_length >= 1

\* The positions of run between the entry of its with-block and its return.
InRun == {"loop", "episode", "reset", "observe_first", "while",
          "select_action", "step", "observe", "add_reward", "increment",
          "episode_done"}

\* C15: the termination handler is installed for as long as run is in its
\* loop, and a stop signal that arrived while an episode was in flight lets
\* that episode reach its terminal timestep, its counter increment and its
\* log record, and stops the run at the episode boundary that follows.
C15_StopAtBoundary ==
    [][ /\ pc' \in InRun => handler'
        /\ (stop_requested /\ pc \in InRun \ {"loop"}) =>
              /\ pc' \in InRun \cup {"zero_division"}
              /\ pc = "increment" => counter'.episodes = counter.episodes + 1
              /\ pc = "episode_done" => Len(logger') = Len(logger) + 1
        /\ (stop_requested /\ pc = "loop") => pc' = "returned"
      ]_vars

\* run was called with neither num_episodes nor num_steps.
NeitherGivenCall ==
    /\ pc /= "idle"
    /\ IsNone(num_episodes)
    /\ IsNone(num_steps)

\* C16: a call of run with neither argument raises nothing and never returns:
\* the argument check passes, the loop test starts an episode every time it is
\* reached, and every completed episode leads back to the loop test.
C16_NeitherRunsForever ==
    [][ NeitherGivenCall' =>
          /\ pc' \notin {"raised", "returned"}
          /\ retval' = None
          /\ pc = "check_args" => pc' = "loop"
          /\ pc = "loop" => pc' = "episode" /\ caller' = "run"
          /\ pc = "episode_done" => pc' = "loop"
                                    /\ episode_count' = episode_count + 1
      ]_vars

\* Without arguments, run has completed MaxNumEpisodes episodes and is at its
\* loop test again.
C16_Witness ==
    /\ NeitherGivenCall
    /\ pc = "loop"
    /\ episode_count = MaxNumEpisodes
    /\ Len(logger) = MaxNumEpisodes
    /\ env_resets = MaxNumEpisodes

\* The calls of one step of an episode, in the order the claim gives them.
StepCalls(update) ==
    << "actor.select_action", "environment.step", "actor.observe",
       "observer.observe" >>
    \o (IF update THEN << "actor.update" >> ELSE << >>)

\* The calls of an episode of n steps.
ExpectedCalls(n, update) ==
    << "environment.reset", "actor.observe_first", "observer.observe_first" >>
    \o [i \in 1..(n * Len(StepCalls(update))) |->
          StepCalls(update)[((i - 1) % Len(StepCalls(update))) + 1]]

IsPrefix(s, t) == Len(s) <= Len(t) /\ SubSeq(t, 1, Len(s)) = s

CountOf(s, x) == Cardinality({i \in 1..Len(s) : s[i] = x})

\* C17: within an episode the calls are environment.reset, the actor's
\* observe_first, the observer's observe_first, and then per step
\* select_action, environment.step, the actor's observe, the observer's
\* observe and update only if should_update; observe_first is called once, and
\* once the terminal timestep is returned nothing more is called.
C17_CallOrder ==
    /\ IsPrefix(calls, ExpectedCalls(episode_steps, should_update))
    /\ CountOf(calls, "actor.observe_first") <= 1
    /\ CountOf(calls, "actor.update")
         = (IF should_update THEN CountOf(calls, "actor.observe") ELSE 0)
    /\ pc \in {"increment", "episode_done"} =>
          /\ calls = ExpectedCalls(episode_steps, should_update)
          /\ timestep.last
          /\ CountOf(calls, "environment.step") = episode_steps
          /\ CountOf(calls, "actor.observe_first") = 1
    /\ (timestep.last /\ pc = "add_reward") =>
          calls = ExpectedCalls(episode_steps, should_update)

\* An episode of two steps under should_update has returned.
C17_Witness ==
    /\ pc = "episode_done"
    /\ should_update
    /\ calls = << "environment.reset", "actor.observe_first",
                  "observer.observe_first",
                  "actor.select_action", "environment.step", "actor.observe",
                  "observer.observe", "actor.update",
                  "actor.select_action", "environment.step", "actor.observe",
                  "observer.observe", "actor.update" >>

\* C18: the counter changes only by one increment per completed episode, of
\* episodes=1 and steps=the number of steps of that episode, made after the
\* terminal timestep; over calls of run and run_episode and the episodes of a
\* loop sharing the counter, its episodes total is the number of completed
\* episodes and its steps total the sum of their lengths, neither decreases,
\* and every record carries the totals as of the increment of its episode.
C18_SharedCounter ==
    [][ /\ counter'.episodes = Len(completed')
        /\ counter'.steps = SumSeq(completed')
        /\ counter'.episodes >= counter.episodes
        /\ counter'.steps >= counter.steps
        /\ (pc = "increment" /\ pc' /= pc) =>
              /\ timestep.last
              /\ counter'.episodes = counter.episodes + 1
              /\ counter'.steps
                   = counter.steps + CountOf(calls, "environment.step")
        /\ (pc = "increment" /\ pc' = "episode_done") =>
              /\ result'.episodes = counter'.episodes
              /\ result'.steps = counter'.steps
        /\ (counter' /= counter /\ pc /= "increment") =>
              /\ pc' = pc
              /\ counter'.episodes = counter.episodes + 1
        /\ \A i \in 1..Len(logger') :
              /\ logger'[i].episodes \in 1..Len(completed')
              /\ completed'[logger'[i].episodes] = logger'[i].episode_length
              /\ logger'[i].steps
                   = SumSeq(SubSeq(completed', 1, logger'[i].episodes))
              /\ i > 1 => logger'[i].episodes > logger'[i - 1].episodes
      ]_vars

\* Two calls of run, a direct call of run_episode and an episode of the other
\* loop have all incremented the counter.
C18_Witness ==
    /\ pc = "idle"
    /\ runs = 2
    /\ directs = 1
    /\ Len(logger) = 2
    /\ counter.episodes = 4
    /\ counter.steps >= 5
    /\ logger[2].episodes > logger[1].episodes + 1

\* The stop predicate of the call in progress, on the counts of run.
StopPredicate ==
    \/ (num_episodes /= None /\ episode_count >= num_episodes[1])
    \/ (num_steps /= None /\ step_count >= num_steps[1])

\* C19: while an episode started by run is in flight the stop predicate is
\* false on run's counts; when run(num_steps=k) returns after some episode, the
\* steps before its final episode were fewer than k, so the returned total
\* exceeds k by less than that episode's length; run(num_steps=0) and
\* run(num_episodes=0) reset the environment never and return 0; the logger
\* holds one record per completed episode, and the record of an episode is in
\* the logger when the next reset is made.
C19_NoEpisodePastStop ==
    /\ (pc \in InRun \ {"loop"} /\ caller = "run") => ~StopPredicate
    /\ (pc = "returned" /\ num_steps /= None /\ Len(logger) >= 1) =>
          LET last == logger[Len(logger)].episode_length
              k == num_steps[1]
          IN  /\ retval[1] - last < k
              /\ retval[1] >= k
              /\ retval[1] - k < last
    /\ (pc \notin {"idle", "check_args", "raised"}
        /\ (num_steps = Some(0) \/ num_episodes = Some(0))) =>
          /\ env_resets = 0
          /\ logger = << >>
          /\ pc \in {"loop", "returned"}
          /\ pc = "returned" => retval = Some(0)
    /\ Len(logger) = episode_count
    /\ Len(logger) = Len(completed) - (IF pc = "episode_done" THEN 1 ELSE 0)
    /\ pc \in {"loop", "episode", "reset", "returned"} =>
          env_resets = Len(logger)
    /\ pc \in InRun \ {"loop", "episode", "reset"} =>
          env_resets = Len(logger) + 1

\* run(num_steps=2) returned 4: one step before its final episode of three.
C19_Witness ==
    /\ pc = "returned"
    /\ num_steps = Some(2)
    /\ retval = Some(4)
    /\ Len(logger) = 2
    /\ logger[2].episode_length = 3

\* Some completed episode had no step.
ZeroLengthEpisode == \E i \in 1..Len(completed) : completed[i] = 0

\* C20: with every episode reaching a terminal timestep, run(num_episodes=n)
\* returns; run(num_steps=k), k > 0, returns unless some episode has no step;
\* and if no episode ever has a step (every reset returns a terminal
\* timestep), run(num_steps=k) has not returned and its step total is 0.
C20_RunTerminates ==
    /\ (pc = "check_args" /\ num_episodes /= None /\ num_steps = None)
         ~> (pc = "returned")
    /\ (pc = "check_args" /\ num_episodes = None /\ num_steps /= None
        /\ num_steps \in {Some(k) : k \in 1..MaxNumEpisodes})
         ~> (pc = "returned" \/ ZeroLengthEpisode)
    /\ []((pc /= "idle" /\ num_episodes = None /\ num_steps /= None
           /\ num_steps /= Some(0) /\ env_steps = 0)
          => (pc /= "returned" /\ step_count = 0 /\ retval = None))

\* run(num_steps=2) has returned after two episodes of one step each.
C20_Witness ==
    /\ pc = "returned"
    /\ num_steps = Some(2)
    /\ num_episodes = None
    /\ completed = << 1, 1 >>
    /\ retval = Some(2)

====
